---- MODULE Spec2Model ----
(***************************************************************************)
(* A model of the two widgets of kotomi-ui:                                *)
(*   - the editable, paginated grid  (src/components/table/Table.tsx)      *)
(*   - the lazily loaded tree        (src/unnamed/part_000)                *)
(* Promises are modelled as entries of the sequences loads, hooks,         *)
(* stashes (grid) and treeLoads (tree); a promise callback is one action.  *)
(* The caller is assumed to supply event.onSave and the form (the          *)
(* `if (onSave && form !== undefined)` branches are the taken ones), and   *)
(* loaders answer with rows whose rowKey values are pairwise distinct.     *)
(***************************************************************************)
EXTENDS Integers, Sequences, FiniteSets, TLC

VARIABLES
    \* --- props of the grid (fixed after construction)
    defaultParam,       \* props.defaultParam
    columns,            \* the reserved dataIndex markers among props.columns
    \* --- private fields of the grid
    REQUEST_PARAM,      \* Table.REQUEST_PARAM
    create,             \* dataSourceState.create
    update,             \* dataSourceState.update
    delete,             \* dataSourceState.delete
    currentEditorCell,  \* registry of the cells whose editor is open
    \* --- React state of the grid
    dataSource, total, loading, page, pageSize, sorter, editingKey,
    \* --- the grid's environment
    mounted,            \* componentDidMount has run
    loads,              \* number of loadData promises in flight
    overtaken,          \* per loadData promise in flight, oldest request
                        \* first: a request issued after it has resolved
    hooks,              \* event.onSave promises in flight: the call site, the
                        \* row's key and whether the call site had just
                        \* appended a new entry for that key to update
    stashes,            \* editStash's Promise.all in flight: cells still hiding
    \* --- observation of the last step of the grid
    last,               \* the operation, its inputs and what it handed out
    call,               \* the argument of the loadData call it made, if any
    requested,          \* page, page size and sorter of the latest change event
    reloaded,           \* the param object of the latest reload(P) request
    \* --- the tree
    treeMounted,        \* componentDidMount has run
    treeData,           \* state.treeData: the root node objects
    children,           \* the children field of every node object
    treeLoads,          \* loadData promises in flight: the node object each
                        \* was called with
    fetched,            \* loader calls made so far, per node key
    made,               \* node objects the loader has made so far, per key
    treeLast            \* observation of the last step of the tree

tableVars == <<defaultParam, columns, REQUEST_PARAM, create, update, delete,
               currentEditorCell, dataSource, total, loading, page, pageSize,
               sorter, editingKey, mounted, loads, overtaken, hooks, stashes,
               last, call, requested, reloaded>>
treeVars == <<treeMounted, treeData, children, treeLoads, fetched, made,
              treeLast>>
vars == <<tableVars, treeVars>>

-----------------------------------------------------------------------------
\* Bounds of the model

\* loadData promises in flight at once
MaxLoads == 2
\* event.onSave promises in flight at once
MaxHooks == 1
\* editStash calls whose Promise.all is still pending
MaxStash == 1
\* rows a caller holds staged in create / delete through getDataSourceState()
MaxStaged == 1

-----------------------------------------------------------------------------
\* Values

\* JavaScript's undefined, for the string-valued slots
Undefined == "undefined"

\* an optional value: <<>> is undefined, <<x>> is x
None == <<>>
Some(x) == <<x>>

\* rowKey values of the rows the loader serves
Keys == {"k1", "k2"}
\* values of the one data field of a row
Vals == {"x", "y"}
\* property order of a row object: "id" first or "val" first
Orders == {"id-val", "val-id"}

Rows == [id : Keys, val : Vals, ord : Orders]
Row(k, v) == [id |-> k, val |-> v, ord |-> "id-val"]

\* JSON.stringify of a row: the properties in the object's own order
JSONstringify(r) ==
    IF r.ord = "id-val" THEN <<"id", r.id, "val", r.val>>
                        ELSE <<"val", r.val, "id", r.id>>

\* structural content of a row (what deep equality compares)
Struct(r) == [id |-> r.id, val |-> r.val]
StructSeq(s) == [i \in 1..Len(s) |-> Struct(s[i])]

\* an object as a set of <<key, value>> pairs with pairwise distinct keys
ObjKeys(o) == {p[1] : p \in o}
Get(o, k) == (CHOOSE p \in o : p[1] = k)[2]
\* {...x, ...y}: y's properties override x's
Spread(x, y) == y \cup {p \in x : p[1] \notin ObjKeys(y)}
\* ...param of an optional object: undefined spreads nothing
OrEmpty(opt) == IF opt = None THEN {} ELSE opt[1]

DefaultPageSize == 300
Pages == {1, 2}
PageSizes == {DefaultPageSize, 10}
\* the sorter the table's change event carries: {name: field, order: order}
Sorters == {[name |-> "val", order |-> "ascend"],
            [name |-> Undefined, order |-> Undefined]}

DefaultParams == {{}, {<<"a", 1>>, <<"b", 2>>}}
ReloadParams == {{}, {<<"b", 3>>}, {<<"c", 4>>}, {<<"b", 5>>, <<"c", 6>>}}

ColumnSets == {{"$operating"}, {"$operating#edit", "$operating#del"}}

\* what the loader may answer
Responses == {[dataSource |-> <<>>, total |-> 0],
              [dataSource |-> <<Row("k1", "x")>>, total |-> 1],
              [dataSource |-> <<Row("k1", "x"), Row("k2", "x")>>, total |-> 7]}

\* what a save hook may resolve to
HookResults == {"true", "false", Undefined}

RemoveAt(s, i) == [j \in 1..(Len(s) - 1) |-> IF j < i THEN s[j] ELSE s[j + 1]]
Ids(s) == {s[i].id : i \in 1..Len(s)}
RowOf(s, k) == s[CHOOSE i \in 1..Len(s) : s[i].id = k]

\* the observation of a step
\*   op: the action; key: the row it is about; rec, tag: the arguments of the
\*   event.onSave call it made (tag "none": no call); resp: what the promise
\*   it handles resolved to; ret: what the per-cell save callback returned;
\*   arg: the parameter reload was called with; was: REQUEST_PARAM as reload
\*   found it; got: the response a load promise resolved with; dup: the update
\*   collection already held an entry structurally equal to the saved values;
\*   staged: the save whose hook resolved had appended a new entry to update;
\*   stale: a request issued after the one that resolved had resolved before
NoRec == [op |-> "none", key |-> Undefined, rec |-> None, tag |-> "none",
          resp |-> "none", ret |-> "none", arg |-> None, was |-> {},
          got |-> None, dup |-> FALSE, staged |-> FALSE, stale |-> FALSE]
Obs(op, key) == [NoRec EXCEPT !.op = op, !.key = key]

-----------------------------------------------------------------------------
\* The grid

Init_table ==
    /\ defaultParam \in DefaultParams
    /\ columns \in ColumnSets
    /\ REQUEST_PARAM = {}
    /\ create = <<>> /\ update = <<>> /\ delete = <<>>
    /\ currentEditorCell = {}
    /\ dataSource = <<>> /\ total = 0 /\ loading = TRUE
    /\ page = 1 /\ pageSize = 0 /\ sorter = None
    /\ editingKey = Undefined
    /\ mounted = FALSE
    /\ loads = 0 /\ overtaken = <<>> /\ hooks = <<>> /\ stashes = <<>>
    /\ last = NoRec /\ call = None /\ requested = None /\ reloaded = None

\* the props never change, and no step of the grid touches the tree
propsUnchanged == UNCHANGED <<defaultParam, columns, treeVars>>
\* React state the code never assigns after construction, the latest
\* change event and the latest reload(P) request
pagingUnchanged == UNCHANGED <<page, pageSize, sorter, requested, reloaded>>
diffUnchanged == UNCHANGED <<create, update, delete>>

\* a pending-changes query that looks at the update collection only
editStatus_updateOnly == Len(update) > 0

\* Table.editStatus
editStatus == Len(create) > 0 \/ Len(update) > 0 \/ Len(delete) > 0

\* Table.isEditing
isEditing(record) == record.id = editingKey

\* a request built from the call's param and the default param alone
requestLoadData_withoutRequestParam(pg, ps, param, srt, rp) ==
    /\ loads < MaxLoads
    /\ loading' = TRUE
    /\ loads' = loads + 1
    /\ overtaken' = Append(overtaken, FALSE)
    /\ call' = Some([page |-> pg, pageSize |-> ps,
                     param |-> Spread(OrEmpty(param), defaultParam),
                     sorter |-> srt])

\* Table.requestLoadData up to the loadData call; rp is this.REQUEST_PARAM
\* as the call reads it
requestLoadData(pg, ps, param, srt, rp) ==
    /\ loads < MaxLoads
    /\ loading' = TRUE
    /\ loads' = loads + 1
    /\ overtaken' = Append(overtaken, FALSE)
    /\ call' = Some([page |-> pg, pageSize |-> ps,
                     param |-> Spread(Spread(OrEmpty(param), defaultParam), rp),
                     sorter |-> srt])

\* Table.componentDidMount
componentDidMount ==
    /\ ~mounted
    /\ mounted' = TRUE
    /\ requestLoadData(1, DefaultPageSize, None, None, REQUEST_PARAM)
    /\ last' = Obs("mount", Undefined)
    /\ propsUnchanged /\ pagingUnchanged /\ diffUnchanged
    /\ UNCHANGED <<REQUEST_PARAM, currentEditorCell, dataSource, total,
                   editingKey, hooks, stashes>>

\* reload merging its parameter into the stored one instead of replacing it
reloadBody_merging(param) ==
    /\ REQUEST_PARAM' = IF param # None THEN Spread(REQUEST_PARAM, param[1])
                                         ELSE REQUEST_PARAM
    /\ requestLoadData(page,
                       IF pageSize # 0 THEN pageSize ELSE DefaultPageSize,
                       param, sorter, REQUEST_PARAM')

\* reload passing its parameter on without storing it in REQUEST_PARAM
reloadBody_notInstalled(param) ==
    /\ REQUEST_PARAM' = REQUEST_PARAM
    /\ requestLoadData(page,
                       IF pageSize # 0 THEN pageSize ELSE DefaultPageSize,
                       param, sorter, REQUEST_PARAM')

\* the body of Table.reload
reloadBody(param) ==
    /\ REQUEST_PARAM' = IF param # None THEN param[1] ELSE REQUEST_PARAM
    /\ requestLoadData(page,
                       IF pageSize # 0 THEN pageSize ELSE DefaultPageSize,
                       param, sorter, REQUEST_PARAM')

\* Table.reload, called by the owner of the widget
reload(param) ==
    /\ mounted
    /\ reloadBody(param)
    /\ last' = [Obs("reload", Undefined) EXCEPT !.arg = param,
                                                !.was = REQUEST_PARAM]
    /\ reloaded' = IF param # None THEN Some(call'[1].param) ELSE reloaded
    /\ propsUnchanged /\ UNCHANGED <<page, pageSize, sorter, requested>>
    /\ diffUnchanged
    /\ UNCHANGED <<currentEditorCell, dataSource, total, editingKey, mounted,
                   hooks, stashes>>

\* AntTable's onChange: a pagination or sort change
onChange(pg, ps, srt) ==
    /\ mounted
    /\ requestLoadData(pg, ps, None, Some(srt), REQUEST_PARAM)
    /\ last' = Obs("change", Undefined)
    /\ requested' = Some([page |-> pg, pageSize |-> ps, sorter |-> Some(srt)])
    /\ propsUnchanged /\ UNCHANGED <<page, pageSize, sorter, reloaded>>
    /\ diffUnchanged
    /\ UNCHANGED <<REQUEST_PARAM, currentEditorCell, dataSource, total,
                   editingKey, mounted, hooks, stashes>>

\* Table.editStash up to Promise.all: every registered cell is asked to hide
editStashBody ==
    /\ Len(stashes) < MaxStash
    /\ stashes' = Append(stashes, currentEditorCell)

\* Table.editStash, called by the owner of the widget
editStash ==
    /\ mounted
    /\ editStashBody
    /\ last' = Obs("editStash", Undefined)
    /\ call' = None
    /\ propsUnchanged /\ pagingUnchanged /\ diffUnchanged
    /\ UNCHANGED <<REQUEST_PARAM, currentEditorCell, dataSource, total,
                   loading, editingKey, mounted, loads, overtaken, hooks>>

\* a Promise.all callback that does not wait for the hide transitions
editStashThen_eager(s) ==
    /\ s \in 1..Len(stashes)
    /\ create' = <<>> /\ delete' = <<>> /\ update' = <<>>
    /\ stashes' = RemoveAt(stashes, s)
    /\ last' = Obs("editStashThen", Undefined)
    /\ call' = None
    /\ propsUnchanged /\ pagingUnchanged
    /\ UNCHANGED <<REQUEST_PARAM, currentEditorCell, dataSource, total,
                   loading, editingKey, mounted, loads, overtaken, hooks>>

\* the callback of editStash's Promise.all: all hide transitions resolved
editStashThen(s) ==
    /\ s \in 1..Len(stashes)
    /\ stashes[s] = {}
    /\ create' = <<>> /\ delete' = <<>> /\ update' = <<>>
    /\ stashes' = RemoveAt(stashes, s)
    /\ last' = Obs("editStashThen", Undefined)
    /\ call' = None
    /\ propsUnchanged /\ pagingUnchanged
    /\ UNCHANGED <<REQUEST_PARAM, currentEditorCell, dataSource, total,
                   loading, editingKey, mounted, loads, overtaken, hooks>>

\* a then-callback that drops the response of a request overtaken by a
\* later one
loadThen_dropsStale(resp) ==
    /\ loads > 0
    /\ editStashBody
    /\ loads' = loads - 1
    /\ \E i \in 1..loads :
          /\ overtaken' = [j \in 1..(loads - 1) |->
                               IF j < i THEN TRUE ELSE overtaken[j + 1]]
          /\ last' = [Obs("loadThen", Undefined)
                          EXCEPT !.got = Some(resp), !.stale = overtaken[i]]
          /\ IF overtaken[i]
             THEN UNCHANGED <<dataSource, total, loading>>
             ELSE /\ dataSource' = resp.dataSource
                  /\ total' = resp.total
                  /\ loading' = FALSE
    /\ call' = None
    /\ propsUnchanged /\ pagingUnchanged /\ diffUnchanged
    /\ UNCHANGED <<REQUEST_PARAM, currentEditorCell, editingKey, mounted, hooks>>

\* the then-callback of requestLoadData without its call of editStash
loadThen_withoutStash(resp) ==
    /\ loads > 0
    /\ dataSource' = resp.dataSource
    /\ total' = resp.total
    /\ loading' = FALSE
    /\ loads' = loads - 1
    /\ \E i \in 1..loads :
          /\ overtaken' = [j \in 1..(loads - 1) |->
                               IF j < i THEN TRUE ELSE overtaken[j + 1]]
          /\ last' = [Obs("loadThen", Undefined)
                          EXCEPT !.got = Some(resp), !.stale = overtaken[i]]
    /\ call' = None
    /\ propsUnchanged /\ pagingUnchanged /\ diffUnchanged
    /\ UNCHANGED <<REQUEST_PARAM, currentEditorCell, editingKey, mounted,
                   hooks, stashes>>

\* the then-callback of requestLoadData: the load promise resolves with resp
loadThen(resp) ==
    /\ loads > 0
    /\ dataSource' = resp.dataSource
    /\ total' = resp.total
    /\ loading' = FALSE
    /\ editStashBody
    /\ loads' = loads - 1
    /\ \E i \in 1..loads :
          /\ overtaken' = [j \in 1..(loads - 1) |->
                               IF j < i THEN TRUE ELSE overtaken[j + 1]]
          /\ last' = [Obs("loadThen", Undefined)
                          EXCEPT !.got = Some(resp), !.stale = overtaken[i]]
    /\ call' = None
    /\ propsUnchanged /\ pagingUnchanged /\ diffUnchanged
    /\ UNCHANGED <<REQUEST_PARAM, currentEditorCell, editingKey, mounted, hooks>>

\* a rejection that ends the loading state
loadRejected_clearsLoading ==
    /\ loads > 0
    /\ loads' = loads - 1
    /\ loading' = FALSE
    /\ \E i \in 1..loads : overtaken' = RemoveAt(overtaken, i)
    /\ last' = Obs("loadRejected", Undefined)
    /\ call' = None
    /\ propsUnchanged /\ pagingUnchanged /\ diffUnchanged
    /\ UNCHANGED <<REQUEST_PARAM, currentEditorCell, dataSource, total,
                   editingKey, mounted, hooks, stashes>>

\* the load promise rejects: requestLoadData attaches no rejection handler
loadRejected ==
    /\ loads > 0
    /\ loads' = loads - 1
    /\ \E i \in 1..loads : overtaken' = RemoveAt(overtaken, i)
    /\ last' = Obs("loadRejected", Undefined)
    /\ call' = None
    /\ propsUnchanged /\ pagingUnchanged /\ diffUnchanged
    /\ UNCHANGED <<REQUEST_PARAM, currentEditorCell, dataSource, total,
                   loading, editingKey, mounted, hooks, stashes>>

\* --- per-cell save -------------------------------------------------------

\* a dataset in which the saved row is moved to the front
newData_movesToFront(ds, values) ==
    <<values>> \o SelectSeq(ds, LAMBDA r : r.id # values.id)

\* onSave of a data cell, lines 517-525: the dataset with the row of the
\* same key replaced by a copy of values
newData(ds, values) ==
    [i \in 1..Len(ds) |-> IF ds[i].id = values.id THEN values ELSE ds[i]]

\* an update collection in which a later edit of a key drops the entry
\* and appends the new values
newUpdate_moveToEnd(upd, values) ==
    Append(SelectSeq(upd, LAMBDA r : r.id # values.id), values)

\* the update collection without the lookup of an entry of the same key
newUpdate_alwaysPush(upd, values) == Append(upd, values)

\* onSave of a data cell, lines 527-545: the update collection afterwards
newUpdate(upd, values) ==
    IF \E i \in 1..Len(upd) : upd[i].id = values.id
    THEN LET i == CHOOSE j \in 1..Len(upd) :
                      /\ upd[j].id = values.id
                      /\ \A h \in 1..(j - 1) : upd[h].id # values.id
         IN  IF JSONstringify(upd[i]) # JSONstringify(values)
             THEN [upd EXCEPT ![i] = values]
             ELSE upd
    ELSE Append(upd, values)

\* onSave of a data cell up to `await onSave(values, 'UPDATE')`
onCell_onSave(values) ==
    /\ mounted
    /\ values.id \in Ids(dataSource)
    /\ Len(hooks) < MaxHooks
    /\ dataSource' = newData(dataSource, values)
    /\ update' = newUpdate(update, values)
    /\ hooks' = Append(hooks, [path |-> "cell", key |-> values.id,
                                staged |-> values.id \notin Ids(update)])
    /\ last' = [Obs("cellSave", values.id)
                    EXCEPT !.rec = Some(values), !.tag = "UPDATE",
                           !.dup = \E i \in 1..Len(update) :
                                       Struct(update[i]) = Struct(values)]
    /\ call' = None
    /\ propsUnchanged /\ pagingUnchanged
    /\ UNCHANGED <<REQUEST_PARAM, create, delete, currentEditorCell, total,
                   loading, editingKey, mounted, loads, overtaken, stashes>>

\* the per-cell save callback returning the hook's resolution as it is
cellReturn_passThrough(respState) == respState

\* what the per-cell save callback returns for a hook resolution
cellReturn(respState) == IF respState = Undefined THEN "true" ELSE respState

\* onSave of a data cell after the await: the hook resolved with respState
onCell_onSaveResumed(i, respState) ==
    /\ i \in 1..Len(hooks)
    /\ hooks[i].path = "cell"
    /\ hooks' = RemoveAt(hooks, i)
    /\ last' = [Obs("cellSaveResumed", hooks[i].key)
                    EXCEPT !.resp = respState, !.ret = cellReturn(respState),
                           !.staged = hooks[i].staged]
    /\ call' = None
    /\ propsUnchanged /\ pagingUnchanged /\ diffUnchanged
    /\ UNCHANGED <<REQUEST_PARAM, currentEditorCell, dataSource, total,
                   loading, editingKey, mounted, loads, overtaken, stashes>>

\* --- row edit ------------------------------------------------------------

\* the column kinds that render the edit control through
\* getColumnOperatingRender
hasEditColumn == "$operating" \in columns \/ "$operating#edit" \in columns

\* the editor controls shown for every row that is not the one being edited
editorShown_anyRow(record) == ~isEditing(record)

\* getColumnOperatingRender: the editor controls are shown for this row
editorShown(record) == ~isEditing(record) /\ editingKey = Undefined

\* the edit icon's onClick (getColumnOperatingEdit, getColumnOperating)
editClick(k) ==
    /\ mounted
    /\ hasEditColumn
    /\ k \in Ids(dataSource)
    /\ editorShown(RowOf(dataSource, k))
    /\ editingKey' = k
    /\ last' = Obs("editClick", k)
    /\ call' = None
    /\ propsUnchanged /\ pagingUnchanged /\ diffUnchanged
    /\ UNCHANGED <<REQUEST_PARAM, currentEditorCell, dataSource, total,
                   loading, mounted, loads, overtaken, hooks, stashes>>

\* a confirm that calls the save hook whatever validation reports
confirmClick_skipsValidation(k, err, v) ==
    /\ mounted
    /\ hasEditColumn
    /\ k \in Ids(dataSource)
    /\ isEditing(RowOf(dataSource, k))
    /\ Len(hooks) < MaxHooks
    /\ hooks' = Append(hooks, [path |-> "confirm", key |-> k,
                                staged |-> FALSE])
    /\ last' = [Obs(IF err THEN "confirmInvalid" ELSE "confirmClick", k)
                    EXCEPT !.rec = Some([RowOf(dataSource, k)
                                             EXCEPT !.val = v]),
                           !.tag = "UPDATE"]
    /\ call' = None
    /\ propsUnchanged /\ pagingUnchanged /\ diffUnchanged
    /\ UNCHANGED <<REQUEST_PARAM, currentEditorCell, dataSource, total,
                   loading, editingKey, mounted, loads, overtaken, stashes>>

\* the confirm icon's onClick; form.validateFields reports err, or the
\* validated value v of the row's field
confirmClick(k, err, v) ==
    /\ mounted
    /\ hasEditColumn
    /\ k \in Ids(dataSource)
    /\ isEditing(RowOf(dataSource, k))
    /\ IF err
       THEN /\ last' = Obs("confirmInvalid", k)
            /\ UNCHANGED hooks
       ELSE /\ Len(hooks) < MaxHooks
            /\ hooks' = Append(hooks, [path |-> "confirm", key |-> k,
                                        staged |-> FALSE])
            /\ last' = [Obs("confirmClick", k)
                            EXCEPT !.rec = Some([RowOf(dataSource, k)
                                                     EXCEPT !.val = v]),
                                   !.tag = "UPDATE"]
    /\ call' = None
    /\ propsUnchanged /\ pagingUnchanged /\ diffUnchanged
    /\ UNCHANGED <<REQUEST_PARAM, currentEditorCell, dataSource, total,
                   loading, editingKey, mounted, loads, overtaken, stashes>>

\* the confirm callback leaving edit mode whatever the hook resolved to
confirmKey_ignoresResult(respState, key) == Undefined

\* the editing key after the confirm hook resolved with respState
confirmKey(respState, key) == IF respState # "false" THEN Undefined ELSE key

\* the then-callback of the confirm icon's onSave call
confirmThen(i, respState) ==
    /\ i \in 1..Len(hooks)
    /\ hooks[i].path = "confirm"
    /\ editingKey' = confirmKey(respState, editingKey)
    /\ hooks' = RemoveAt(hooks, i)
    /\ last' = [Obs("confirmThen", hooks[i].key) EXCEPT !.resp = respState]
    /\ call' = None
    /\ propsUnchanged /\ pagingUnchanged /\ diffUnchanged
    /\ UNCHANGED <<REQUEST_PARAM, currentEditorCell, dataSource, total,
                   loading, mounted, loads, overtaken, stashes>>

\* an undo that leaves edit mode only while no save is pending
undoClick_keepsWhilePending(k) ==
    /\ mounted
    /\ hasEditColumn
    /\ k \in Ids(dataSource)
    /\ isEditing(RowOf(dataSource, k))
    /\ editingKey' = IF hooks = <<>> THEN Undefined ELSE editingKey
    /\ last' = Obs("undoClick", k)
    /\ call' = None
    /\ propsUnchanged /\ pagingUnchanged /\ diffUnchanged
    /\ UNCHANGED <<REQUEST_PARAM, currentEditorCell, dataSource, total,
                   loading, mounted, loads, overtaken, hooks, stashes>>

\* the undo icon's onClick
undoClick(k) ==
    /\ mounted
    /\ hasEditColumn
    /\ k \in Ids(dataSource)
    /\ isEditing(RowOf(dataSource, k))
    /\ editingKey' = Undefined
    /\ last' = Obs("undoClick", k)
    /\ call' = None
    /\ propsUnchanged /\ pagingUnchanged /\ diffUnchanged
    /\ UNCHANGED <<REQUEST_PARAM, currentEditorCell, dataSource, total,
                   loading, mounted, loads, overtaken, hooks, stashes>>

\* --- row events ----------------------------------------------------------

\* row events suppressed on the row being edited only
onRow_editedRowOnly(record, index) ==
    IF ~isEditing(record)
    THEN [hook |-> Some(<<record, index>>), listeners |-> "event.onRow"]
    ELSE [hook |-> None, listeners |-> "{}"]

\* the onRow prop render hands to AntTable, for a row and its index: the
\* call of the caller's event.onRow it makes, if any, and the listener map
\* it returns (what event.onRow returned, or the empty map)
onRow(record, index) ==
    IF editingKey = Undefined
    THEN [hook |-> Some(<<record, index>>), listeners |-> "event.onRow"]
    ELSE [hook |-> None, listeners |-> "{}"]

\* --- delete --------------------------------------------------------------

\* the delete icon is rendered for this row: always in a $operating#del
\* column, through getColumnOperatingRender in a $operating column
deleteShown(record) ==
    \/ "$operating#del" \in columns
    \/ ("$operating" \in columns /\ editorShown(record))

\* a delete that stages the row in the delete collection
deleteClick_stages(k) ==
    /\ mounted
    /\ k \in Ids(dataSource)
    /\ deleteShown(RowOf(dataSource, k))
    /\ Len(hooks) < MaxHooks
    /\ hooks' = Append(hooks, [path |-> "delete", key |-> k, staged |-> FALSE])
    /\ delete' = Append(delete, RowOf(dataSource, k))
    /\ last' = [Obs("deleteClick", k)
                    EXCEPT !.rec = Some(RowOf(dataSource, k)), !.tag = "DELETE"]
    /\ call' = None
    /\ propsUnchanged /\ pagingUnchanged /\ UNCHANGED <<create, update>>
    /\ UNCHANGED <<REQUEST_PARAM, currentEditorCell, dataSource, total,
                   loading, editingKey, mounted, loads, overtaken, stashes>>

\* a delete that also removes the row from the dataset at once
deleteClick_splices(k) ==
    /\ mounted
    /\ k \in Ids(dataSource)
    /\ Len(hooks) < MaxHooks
    /\ hooks' = Append(hooks, [path |-> "delete", key |-> k, staged |-> FALSE])
    /\ dataSource' = SelectSeq(dataSource, LAMBDA r : r.id # k)
    /\ total' = total - 1
    /\ last' = [Obs("deleteClick", k)
                    EXCEPT !.rec = Some(RowOf(dataSource, k)), !.tag = "DELETE"]
    /\ call' = None
    /\ propsUnchanged /\ pagingUnchanged /\ diffUnchanged
    /\ UNCHANGED <<REQUEST_PARAM, currentEditorCell, loading, editingKey,
                   mounted, loads, overtaken, stashes>>

\* the delete icon's onClick (getColumnOperatingDel, getColumnOperating)
deleteClick(k) ==
    /\ mounted
    /\ k \in Ids(dataSource)
    /\ deleteShown(RowOf(dataSource, k))
    /\ Len(hooks) < MaxHooks
    /\ hooks' = Append(hooks, [path |-> "delete", key |-> k, staged |-> FALSE])
    /\ last' = [Obs("deleteClick", k)
                    EXCEPT !.rec = Some(RowOf(dataSource, k)), !.tag = "DELETE"]
    /\ call' = None
    /\ propsUnchanged /\ pagingUnchanged /\ diffUnchanged
    /\ UNCHANGED <<REQUEST_PARAM, currentEditorCell, dataSource, total,
                   loading, editingKey, mounted, loads, overtaken, stashes>>

\* the delete hook's resolution calls reload
deleteReloads(respState) == respState # "false"

\* the then-callback of the delete icon's onSave call
deleteThen(i, respState) ==
    /\ i \in 1..Len(hooks)
    /\ hooks[i].path = "delete"
    /\ IF deleteReloads(respState)
       THEN reloadBody(None)
       ELSE /\ call' = None
            /\ UNCHANGED <<REQUEST_PARAM, loading, loads, overtaken>>
    /\ hooks' = RemoveAt(hooks, i)
    /\ last' = [Obs("deleteThen", hooks[i].key) EXCEPT !.resp = respState]
    /\ propsUnchanged /\ pagingUnchanged /\ diffUnchanged
    /\ UNCHANGED <<currentEditorCell, dataSource, total, editingKey, mounted,
                   stashes>>

\* a save hook's promise rejects: no call site attaches a rejection handler
onSaveRejected(i) ==
    /\ i \in 1..Len(hooks)
    /\ hooks' = RemoveAt(hooks, i)
    /\ last' = Obs("onSaveRejected", hooks[i].key)
    /\ call' = None
    /\ propsUnchanged /\ pagingUnchanged /\ diffUnchanged
    /\ UNCHANGED <<REQUEST_PARAM, currentEditorCell, dataSource, total,
                   loading, editingKey, mounted, loads, overtaken, stashes>>

\* --- the editable cells (EditableCell.tsx) -------------------------------

\* a cell of row k opens its editor and enters the registry
cellOpen(k) ==
    /\ mounted
    /\ k \in Ids(dataSource)
    /\ k \notin currentEditorCell
    /\ currentEditorCell' = currentEditorCell \cup {k}
    /\ last' = Obs("cellOpen", k)
    /\ call' = None
    /\ propsUnchanged /\ pagingUnchanged /\ diffUnchanged
    /\ UNCHANGED <<REQUEST_PARAM, dataSource, total, loading, editingKey,
                   mounted, loads, overtaken, hooks, stashes>>

\* the promise of element.onSave('hide') of cell k resolves for stash s:
\* the cell has hidden its editor and left the registry
cellHidden(s, k) ==
    /\ s \in 1..Len(stashes)
    /\ k \in stashes[s]
    /\ stashes' = [stashes EXCEPT ![s] = @ \ {k}]
    /\ currentEditorCell' = currentEditorCell \ {k}
    /\ last' = Obs("cellHidden", k)
    /\ call' = None
    /\ propsUnchanged /\ pagingUnchanged /\ diffUnchanged
    /\ UNCHANGED <<REQUEST_PARAM, dataSource, total, loading, editingKey,
                   mounted, loads, overtaken, hooks>>

\* the promise of element.onSave('hide') of cell k rejects for stash s:
\* Promise.all rejects, and editStash attached no rejection handler, so the
\* callback that clears the collections never runs for this discard
cellHideRejected(s, k) ==
    /\ s \in 1..Len(stashes)
    /\ k \in stashes[s]
    /\ stashes' = RemoveAt(stashes, s)
    /\ last' = Obs("cellHideRejected", k)
    /\ call' = None
    /\ propsUnchanged /\ pagingUnchanged /\ diffUnchanged
    /\ UNCHANGED <<REQUEST_PARAM, currentEditorCell, dataSource, total,
                   loading, editingKey, mounted, loads, overtaken, hooks>>

\* --- the caller holding the object getDataSourceState() returns ---------

\* the caller stages row r in the create or the delete collection
stage(coll, r) ==
    /\ mounted
    /\ coll \in {"create", "delete"}
    /\ IF coll = "create"
       THEN /\ Len(create) < MaxStaged
            /\ r.id \notin Ids(create)
            /\ create' = Append(create, r)
            /\ UNCHANGED delete
       ELSE /\ Len(delete) < MaxStaged
            /\ r.id \notin Ids(delete)
            /\ delete' = Append(delete, r)
            /\ UNCHANGED create
    /\ last' = Obs("stage", r.id)
    /\ call' = None
    /\ propsUnchanged /\ pagingUnchanged
    /\ UNCHANGED <<REQUEST_PARAM, update, currentEditorCell, dataSource,
                   total, loading, editingKey, mounted, loads, overtaken,
                   hooks, stashes>>

-----------------------------------------------------------------------------
\* The tree

\* loadData promises of the tree in flight at once
MaxTreeLoads == 2
\* loader calls counted per node
MaxFetch == 2

\* keys of the nodes the loader serves
NodeKeys == {"n1", "n2", "n3", "n4"}
\* the argument of the root fetch, loadData(undefined)
Root == <<"root", 0>>

\* the lists the loader may answer with for the root and for a node
RootResponses == {<<>>, <<"n1">>, <<"n1", "n2">>}
ChildResponses(n) ==
    CASE n = "n1" -> {<<>>, <<"n3">>, <<"n3", "n4">>}
      [] n = "n2" -> {<<>>}
      [] n = "n3" -> {<<>>, <<"n4">>}
      [] OTHER    -> {<<>>}
\* what the loader may resolve to for a node: undefined, or a list
ChildAnswers(n) == {None} \cup {Some(L) : L \in ChildResponses(n)}

\* a TreeNodeData object: its key, and which of the objects the loader has
\* made for that key it is (every answer of the loader holds new objects);
\* n3 is served under n1 and n4 under n1 and n3, each fetched at most
\* MaxFetch times
Objects == NodeKeys \X (1..(2 * MaxFetch))

Elems(s) == {s[i] : i \in 1..Len(s)}
ChildrenOf(S) == UNION {Elems(children[n]) : n \in S}
\* the keys of a list of objects, in order
KeysOf(s) == [j \in 1..Len(s) |-> s[j][1]]
\* the objects of an answer with the keys L, and the count of objects made
\* per key afterwards
Fresh(L) == [j \in 1..Len(L) |-> <<L[j], made[L[j]] + 1>>]
MadeAfter(L) == [k \in NodeKeys |-> IF k \in Elems(L) THEN made[k] + 1
                                                        ELSE made[k]]

\* Tree.renderTreeNodes: the node objects rendered, to any depth
rendered ==
    LET l1 == Elems(treeData)
        l2 == l1 \cup ChildrenOf(l1)
        l3 == l2 \cup ChildrenOf(l2)
    IN  l3 \cup ChildrenOf(l3)

\* the observation of a step of the tree: the node object it is about, what
\* the loader resolved to, and whether setState was called with a copy of
\* the root list
NoTreeRec == [op |-> "none", node |-> Root, got |-> None, set |-> FALSE]

Init_tree ==
    /\ treeMounted = FALSE
    /\ treeData = <<>>
    /\ children = [o \in Objects |-> <<>>]
    /\ treeLoads = <<>>
    /\ fetched = [n \in NodeKeys |-> 0]
    /\ made = [n \in NodeKeys |-> 0]
    /\ treeLast = NoTreeRec

\* no step of the tree touches the grid
tableUnchanged == UNCHANGED tableVars

\* Tree.componentDidMount up to the loadData(undefined) call
Tree_componentDidMount ==
    /\ ~treeMounted
    /\ treeMounted' = TRUE
    /\ treeLoads' = Append(treeLoads, Root)
    /\ treeLast' = [NoTreeRec EXCEPT !.op = "mount"]
    /\ tableUnchanged
    /\ UNCHANGED <<treeData, children, fetched, made>>

\* the then-callback of Tree.componentDidMount
Tree_componentDidMountThen(i, L) ==
    /\ i \in 1..Len(treeLoads)
    /\ treeLoads[i] = Root
    /\ treeData' = Fresh(L)
    /\ made' = MadeAfter(L)
    /\ treeLoads' = RemoveAt(treeLoads, i)
    /\ treeLast' = [NoTreeRec EXCEPT !.op = "mountThen", !.got = Some(L),
                                     !.set = TRUE]
    /\ tableUnchanged
    /\ UNCHANGED <<treeMounted, children, fetched>>

\* Tree.onLoadData up to `await this.props.loadData(node.props.dataRef)`:
\* the toolkit's expand callback for the rendered node object n
Tree_onLoadData(n) ==
    /\ treeMounted
    /\ n \in rendered
    /\ Len(treeLoads) < MaxTreeLoads
    /\ fetched[n[1]] < MaxFetch
    /\ treeLoads' = Append(treeLoads, n)
    /\ fetched' = [fetched EXCEPT ![n[1]] = @ + 1]
    /\ treeLast' = [NoTreeRec EXCEPT !.op = "onLoadData", !.node = n]
    /\ tableUnchanged
    /\ UNCHANGED <<treeMounted, treeData, children, made>>

\* a merge by key: the answer becomes the children of every object that has
\* the key of the node that was expanded
Tree_onLoadDataResumed_byKey(i, resp) ==
    /\ i \in 1..Len(treeLoads)
    /\ treeLoads[i] # Root
    /\ resp \in ChildAnswers(treeLoads[i][1])
    /\ IF resp # None /\ Len(resp[1]) > 0
       THEN /\ children' = [o \in Objects |->
                               IF o[1] = treeLoads[i][1] THEN Fresh(resp[1])
                                                         ELSE children[o]]
            /\ made' = MadeAfter(resp[1])
            /\ treeData' = [j \in 1..Len(treeData) |-> treeData[j]]
            /\ treeLast' = [NoTreeRec EXCEPT !.op = "onLoadDataResumed",
                                !.node = treeLoads[i], !.got = resp,
                                !.set = TRUE]
       ELSE /\ UNCHANGED <<children, treeData, made>>
            /\ treeLast' = [NoTreeRec EXCEPT !.op = "onLoadDataResumed",
                                !.node = treeLoads[i], !.got = resp]
    /\ treeLoads' = RemoveAt(treeLoads, i)
    /\ tableUnchanged
    /\ UNCHANGED <<treeMounted, fetched>>

\* Tree.onLoadData after the await: the loader resolved with resp for the
\* node object the callback was given
Tree_onLoadDataResumed(i, resp) ==
    /\ i \in 1..Len(treeLoads)
    /\ treeLoads[i] # Root
    /\ resp \in ChildAnswers(treeLoads[i][1])
    /\ IF resp # None /\ Len(resp[1]) > 0
       THEN /\ children' = [children EXCEPT ![treeLoads[i]] = Fresh(resp[1])]
            /\ made' = MadeAfter(resp[1])
            /\ treeData' = [j \in 1..Len(treeData) |-> treeData[j]]
            /\ treeLast' = [NoTreeRec EXCEPT !.op = "onLoadDataResumed",
                                !.node = treeLoads[i], !.got = resp,
                                !.set = TRUE]
       ELSE /\ UNCHANGED <<children, treeData, made>>
            /\ treeLast' = [NoTreeRec EXCEPT !.op = "onLoadDataResumed",
                                !.node = treeLoads[i], !.got = resp]
    /\ treeLoads' = RemoveAt(treeLoads, i)
    /\ tableUnchanged
    /\ UNCHANGED <<treeMounted, fetched>>

TreeNext ==
    \/ Tree_componentDidMount
    \/ \E i \in 1..MaxTreeLoads, L \in RootResponses : Tree_componentDidMountThen(i, L)
    \/ \E n \in Objects : Tree_onLoadData(n)
    \/ \E i \in 1..MaxTreeLoads, resp \in UNION {ChildAnswers(n) : n \in NodeKeys} :
          Tree_onLoadDataResumed(i, resp)

-----------------------------------------------------------------------------
Init == Init_table /\ Init_tree

\* rows whose properties are in the order the loader serves them
CanonicalRows == {r \in Rows : r.ord = "id-val"}
\* the rows a cell hands to its save callback after an edit to "y"
EditedRows == {Row(k, "y") : k \in Keys}

\* --- Spec: the grid under loads, per-cell saves, row edits and deletes;
\*     defaultParam is {a:1, b:2}, reload is called without a parameter,
\*     the change event asks for page 2 of 10 rows sorted by val,
\*     cells save a row edited to "y" in the loader's property order, no
\*     cell editor is registered
InitSpec == Init /\ defaultParam = {<<"a", 1>>, <<"b", 2>>}

Next ==
    \/ componentDidMount
    \/ reload(None)
    \/ onChange(2, 10, [name |-> "val", order |-> "ascend"])
    \/ editStash
    \/ \E s \in 1..MaxStash : editStashThen(s)
    \/ \E resp \in Responses : loadThen(resp)
    \/ loadRejected
    \/ \E values \in EditedRows : onCell_onSave(values)
    \/ \E i \in 1..MaxHooks, r \in HookResults : onCell_onSaveResumed(i, r)
    \/ \E k \in Keys : editClick(k)
    \/ \E k \in Keys, err \in BOOLEAN, v \in Vals : confirmClick(k, err, v)
    \/ \E i \in 1..MaxHooks, r \in HookResults : confirmThen(i, r)
    \/ \E k \in Keys : undoClick(k)
    \/ \E k \in Keys : deleteClick(k)
    \/ \E i \in 1..MaxHooks, r \in HookResults : deleteThen(i, r)
    \/ \E i \in 1..MaxHooks : onSaveRejected(i)

Spec == InitSpec /\ [][Next]_vars

\* --- ParamSpec: the grid's load requests: every reload parameter, every
\*     change event, deletes through a $operating column; no edits
InitParam == Init /\ columns = {"$operating"}

NextParam ==
    \/ componentDidMount
    \/ \E p \in {None} \cup {Some(o) : o \in ReloadParams} : reload(p)
    \/ \E pg \in Pages, ps \in PageSizes, srt \in Sorters : onChange(pg, ps, srt)
    \/ \E s \in 1..MaxStash : editStashThen(s)
    \/ \E resp \in Responses : loadThen(resp)
    \/ loadRejected
    \/ \E k \in Keys : deleteClick(k)
    \/ \E i \in 1..MaxHooks, r \in HookResults : deleteThen(i, r)

ParamSpec == InitParam /\ [][NextParam]_vars

\* --- CellSpec: per-cell saves of rows in either property order, with
\*     loads and discards; no cell editor is registered
InitCell == Init /\ defaultParam = {} /\ columns = {"$operating"}

NextCell ==
    \/ componentDidMount
    \/ reload(None)
    \/ editStash
    \/ \E s \in 1..MaxStash : editStashThen(s)
    \/ \E resp \in Responses : loadThen(resp)
    \/ \E values \in Rows : onCell_onSave(values)
    \/ \E i \in 1..MaxHooks, r \in HookResults : onCell_onSaveResumed(i, r)

CellSpec == InitCell /\ [][NextCell]_vars

\* --- DiffSpec: the grid's edit-diff: per-cell saves, registered cell
\*     editors, discards, loads, and a caller staging a row through
\*     getDataSourceState()
InitDiff == Init /\ defaultParam = {} /\ columns = {"$operating"}

DiffStep ==
    \/ componentDidMount
    \/ reload(None)
    \/ editStash
    \/ \E s \in 1..MaxStash : editStashThen(s)
    \/ \E resp \in Responses : loadThen(resp)
    \/ \E values \in EditedRows : onCell_onSave(values)
    \/ \E i \in 1..MaxHooks, r \in HookResults : onCell_onSaveResumed(i, r)
    \/ \E k \in Keys : cellOpen(k)
    \/ \E s \in 1..MaxStash, k \in Keys : cellHidden(s, k)
    \/ \E coll \in {"create", "delete"} : stage(coll, Row("k1", "x"))

DiffSpec == InitDiff /\ [][DiffStep]_vars

\* --- StashSpec: DiffSpec with hide transitions that may also reject
NextStash ==
    \/ componentDidMount
    \/ reload(None)
    \/ editStash
    \/ \E s \in 1..MaxStash : editStashThen(s)
    \/ \E resp \in Responses : loadThen(resp)
    \/ \E values \in EditedRows : onCell_onSave(values)
    \/ \E i \in 1..MaxHooks, r \in HookResults : onCell_onSaveResumed(i, r)
    \/ \E k \in Keys : cellOpen(k)
    \/ \E s \in 1..MaxStash, k \in Keys : cellHidden(s, k)
    \/ \E s \in 1..MaxStash, k \in Keys : cellHideRejected(s, k)
    \/ \E coll \in {"create", "delete"} : stage(coll, Row("k1", "x"))

StashSpec == InitDiff /\ [][NextStash]_vars

\* --- TreeSpec: the tree alone
InitTree == Init /\ defaultParam = {} /\ columns = {"$operating"}

TreeSpec == InitTree /\ [][TreeNext]_vars

\* --- FairDiffSpec: DiffSpec under the event loop's scheduling: a hide
\*     transition that was started resolves, and the callback of a settled
\*     Promise.all runs
FairDiffSpec ==
    /\ DiffSpec
    /\ WF_vars(\E s \in 1..MaxStash, k \in Keys : cellHidden(s, k))
    /\ WF_vars(\E s \in 1..MaxStash : editStashThen(s))

-----------------------------------------------------------------------------
\* Properties

\* the steps in which one of the three edit-diff collections loses an entry
DiffShrinks ==
    \/ Len(create') < Len(create)
    \/ Len(update') < Len(update)
    \/ Len(delete') < Len(delete)

C2_Original ==
    (last.op = "reload" /\ last.arg # None) =>
        call[1].param = Spread(Spread(defaultParam, last.was), last.arg[1])

\* C2 as amended: reload(P) replaces the stored request parameter by P and
\* requests the merge of D and P, P overriding D; nothing of R is retained.
C2_ReloadReplacesRequestParam ==
    (last.op = "reload" /\ last.arg # None) =>
        /\ REQUEST_PARAM = last.arg[1]
        /\ call[1].param = Spread(defaultParam, last.arg[1])

\* D = {a:1, b:2}, R = {b:3}, reload({c:4}) requests {a:1, b:2, c:4}
C2_Witness ==
    /\ last.op = "reload"
    /\ defaultParam = {<<"a", 1>>, <<"b", 2>>}
    /\ last.was = {<<"b", 3>>}
    /\ last.arg = Some({<<"c", 4>>})
    /\ call = Some([page |-> 1, pageSize |-> DefaultPageSize,
                    param |-> {<<"a", 1>>, <<"b", 2>>, <<"c", 4>>},
                    sorter |-> None])

\* C3: for every reload(P) and every key k of P, the param object handed to
\* loadData maps k to P[k].
C3_ReloadParamWins ==
    (last.op = "reload" /\ last.arg # None) =>
        \A k \in ObjKeys(last.arg[1]) :
            /\ k \in ObjKeys(call[1].param)
            /\ Get(call[1].param, k) = Get(last.arg[1], k)

\* reload({b:5, c:6}) with b held by both the default and the stored param
C3_Witness ==
    /\ last.op = "reload"
    /\ defaultParam = {<<"a", 1>>, <<"b", 2>>}
    /\ last.was = {<<"b", 3>>}
    /\ last.arg = Some({<<"b", 5>>, <<"c", 6>>})
    /\ Get(call[1].param, "b") = 5

\* the entries of a collection with rowKey value k
EntriesOf(coll, k) == {i \in 1..Len(coll) : coll[i].id = k}

\* C4: every per-cell save leaves exactly one entry of the row's key in
\* update, structurally equal to the saved values; and a save of values
\* structurally equal to an entry update already holds leaves the length,
\* the order and the structural content of update as they were.
C4_DiffIdempotence ==
    [][last'.op = "cellSave" =>
          /\ Cardinality(EntriesOf(update', last'.key)) = 1
          /\ Struct(RowOf(update', last'.key)) = Struct(last'.rec[1])
          /\ last'.dup => StructSeq(update') = StructSeq(update)]_vars

\* a second save of structurally equal values, the properties in the other
\* order, has acted
C4_Witness ==
    /\ last.op = "cellSave" /\ last.dup
    /\ Len(update) = 2
    /\ last.rec[1].ord = "val-id"

\* the rows of the dataset that render in edit mode
EditingRows == {i \in 1..Len(dataSource) : isEditing(dataSource[i])}

\* C5: at most one row is in edit mode, and the editing key never changes
\* from one row's key to another's: from k it only goes back to undefined.
C5_ExclusiveRowEdit ==
    /\ [](Cardinality(EditingRows) <= 1)
    /\ [][editingKey # Undefined => editingKey' \in {editingKey, Undefined}]_vars

\* row k1 is being edited while row k2 is on the page
C5_Witness ==
    /\ editingKey = "k1" /\ last.op = "editClick"
    /\ {"k1", "k2"} \subseteq Ids(dataSource)

\* C6 as stated, for a hook resolving false: after a per-cell save that had
\* appended a new entry, update holds no entry of that key (update is as it
\* was before the save); a row confirm leaves editingKey where it was; a
\* delete issues no load request.
C6_Original ==
    [][last'.resp = "false" =>
          /\ (last'.op = "cellSaveResumed" /\ last'.staged)
                 => last'.key \notin Ids(update')
          /\ last'.op = "confirmThen" => editingKey' = editingKey
          /\ last'.op = "deleteThen" => (call' = None /\ loads' = loads)]_vars

\* C6 as amended, for a hook resolving false: the per-cell save callback
\* returns false and the resolution changes neither the edit-diff nor the
\* dataset (what the save staged before calling the hook stays staged); a
\* row confirm leaves editingKey where it was; a delete issues no load
\* request.
C6_FalseDoesNotAdvance ==
    [][last'.resp = "false" =>
          /\ last'.op = "cellSaveResumed" =>
                 /\ last'.ret = "false"
                 /\ UNCHANGED <<create, update, delete, dataSource, total,
                                editingKey, loads>>
          /\ last'.op = "confirmThen" => editingKey' = editingKey
          /\ last'.op = "deleteThen" => (call' = None /\ loads' = loads)]_vars

\* a per-cell save's hook resolved false and the entry it staged is in update
C6_Witness ==
    /\ last.op = "cellSaveResumed" /\ last.resp = "false" /\ last.staged
    /\ last.key \in Ids(update)

\* C7: a save hook resolving undefined leads where one resolving true leads:
\* the per-cell save returns true and changes nothing, the row confirm sets
\* editingKey to undefined, the delete issues the request of reload().
C7_UndefinedIsSuccess ==
    [][last'.resp \in {"true", Undefined} =>
          /\ last'.op = "cellSaveResumed" =>
                 /\ last'.ret = "true"
                 /\ call' = None
                 /\ UNCHANGED <<create, update, delete, dataSource, total,
                                editingKey, loads, loading>>
          /\ last'.op = "confirmThen" =>
                 /\ editingKey' = Undefined
                 /\ call' = None
                 /\ UNCHANGED <<create, update, delete, dataSource, total,
                                loads, loading>>
          /\ last'.op = "deleteThen" =>
                 /\ call' = Some([page |-> page,
                                  pageSize |-> DefaultPageSize,
                                  param |-> Spread(defaultParam, REQUEST_PARAM),
                                  sorter |-> sorter])
                 /\ loads' = loads + 1 /\ loading'
                 /\ UNCHANGED <<create, update, delete, dataSource, total,
                                editingKey, REQUEST_PARAM>>]_vars

\* a per-cell save's hook resolved undefined and the callback returned true
C7_Witness ==
    /\ last.op = "cellSaveResumed" /\ last.resp = Undefined
    /\ last.ret = "true"

\* C8: a click on delete calls the save hook with that row and "DELETE" and
\* changes neither the dataset nor total nor issues a load request; the
\* hook's resolution issues a load request exactly when it is not false;
\* a load resolution makes the dataset and total those of the response.
C8_DeleteNotOptimistic ==
    [][/\ last'.op = "deleteClick" =>
              /\ last'.tag = "DELETE"
              /\ last'.rec = Some(RowOf(dataSource, last'.key))
              /\ call' = None /\ loads' = loads
              /\ dataSource' = dataSource /\ total' = total
       /\ last'.op = "deleteThen" =>
              /\ (call' # None) = (last'.resp # "false")
              /\ loads' = IF last'.resp # "false" THEN loads + 1 ELSE loads
              /\ dataSource' = dataSource /\ total' = total
       /\ last'.op = "loadThen" =>
              /\ dataSource' = last'.got[1].dataSource
              /\ total' = last'.got[1].total]_vars

\* a delete's hook resolved undefined: the request is out, the two rows of
\* the dataset are still there
C8_Witness ==
    /\ last.op = "deleteThen" /\ last.resp = Undefined
    /\ call # None
    /\ Len(dataSource) = 2 /\ total = 7

C10_Original ==
    (last.op \in {"reload", "deleteThen"} /\ call # None /\ requested # None) =>
        /\ call[1].page = requested[1].page
        /\ call[1].pageSize = requested[1].pageSize
        /\ call[1].sorter = requested[1].sorter

\* C11: the rejection of a load promise changes neither loading nor the
\* dataset nor total nor the three edit-diff collections and issues no load
\* request (no retry); loading, once true, is set to false only by the
\* resolution of a load request.
C11_RejectedLoadUnhandled ==
    /\ [][last'.op = "loadRejected" =>
             /\ UNCHANGED <<loading, dataSource, total, create, update, delete>>
             /\ call' = None /\ loads' = loads - 1]_vars
    /\ [][(loading /\ ~loading') => last'.op = "loadThen"]_vars

\* the only load request in flight was rejected: the grid still shows the
\* loading state over the two rows and the pending edit it had
C11_Witness ==
    /\ last.op = "loadRejected" /\ loads = 0
    /\ loading
    /\ Len(dataSource) = 2 /\ Len(update) > 0

\* C12: editStatus() is true exactly when create, update or delete holds an
\* entry; it is false once a discard (an explicit one, or the one a resolved
\* load starts) has completed, true after a per-cell save, and stays true
\* until a discard completes.
C12_EditStatusIffPending ==
    /\ [](editStatus <=> (create # <<>> \/ update # <<>> \/ delete # <<>>))
    /\ [][/\ last'.op = "editStashThen" => ~editStatus'
          /\ last'.op = "cellSave" => editStatus'
          /\ (editStatus /\ last'.op # "editStashThen") => editStatus']_vars

\* editStatus() is true on account of a row staged in create alone
C12_Witness ==
    /\ editStatus
    /\ Len(create) > 0 /\ update = <<>> /\ delete = <<>>

\* C13: once reload(P) has been called, every load request issued without a
\* parameter (reload(), the reload() of a delete, a pagination or sort
\* change) hands loadData the param object the latest reload(P) request
\* handed it.
C13_ReloadReusesParam ==
    (/\ last.op \in {"reload", "change", "deleteThen"}
     /\ last.arg = None
     /\ call # None /\ reloaded # None)
        => call[1].param = reloaded[1]

\* a change event after reload({b:5, c:6}) over the default {a:1, b:2}
C13_Witness ==
    /\ last.op = "change"
    /\ reloaded = Some({<<"a", 1>>, <<"b", 5>>, <<"c", 6>>})
    /\ call # None /\ call[1].param = reloaded[1]

\* C14: whenever a load request has just resolved, the dataset and total are
\* those of its response and loading is false, whatever the order in which
\* the requests in flight were issued: the response of a request that a
\* later one overtook is taken like any other.
C14_LastResponseWins ==
    last.op = "loadThen" =>
        /\ dataSource = last.got[1].dataSource
        /\ total = last.got[1].total
        /\ ~loading

\* two requests overlapped, the later one resolved first, and the response
\* of the earlier one, which resolved last, is what the grid shows
C14_Witness ==
    /\ last.op = "loadThen" /\ last.stale /\ loads = 0
    /\ last.got = Some([dataSource |-> <<Row("k1", "x")>>, total |-> 1])
    /\ dataSource = <<Row("k1", "x")>> /\ total = 1

\* C15: a click on confirm acts on the row being edited; when validation
\* reports an error the save hook is not called and editingKey stays; when
\* it reports none the hook is called with tag "UPDATE" and the row overlaid
\* with the validated value, editingKey still in place; the hook's
\* resolution sets editingKey to undefined exactly when it is not false.
C15_RowConfirm ==
    [][/\ last'.op = "confirmInvalid" =>
              /\ editingKey = last'.key
              /\ last'.tag = "none" /\ hooks' = hooks
              /\ editingKey' = editingKey
       /\ last'.op = "confirmClick" =>
              /\ editingKey = last'.key
              /\ last'.tag = "UPDATE"
              /\ \E v \in Vals :
                     last'.rec = Some([RowOf(dataSource, last'.key)
                                           EXCEPT !.val = v])
              /\ Len(hooks') = Len(hooks) + 1
              /\ editingKey' = editingKey
       /\ last'.op = "confirmThen" =>
              editingKey' = IF last'.resp # "false" THEN Undefined
                                                     ELSE editingKey]_vars

\* the hook of the confirm of row k1 resolved true and edit mode has ended
C15_Witness ==
    /\ last.op = "confirmThen" /\ last.key = "k1" /\ last.resp = "true"
    /\ editingKey = Undefined

\* C16: a click on undo on the row being edited sets editingKey to
\* undefined, calls no save hook, and leaves the pending saves, the dataset,
\* total and the three edit-diff collections as they are; the control acts
\* whenever the row being edited is displayed, a save pending or not.
C16_RowCancel ==
    /\ [][last'.op = "undoClick" =>
             /\ editingKey = last'.key
             /\ editingKey' = Undefined
             /\ last'.tag = "none" /\ hooks' = hooks
             /\ UNCHANGED <<dataSource, total, create, update, delete>>]_vars
    /\ []((mounted /\ hasEditColumn /\ editingKey \in Ids(dataSource))
              => ENABLED undoClick(editingKey))

\* undo was clicked while the confirm's save hook was still pending
C16_Witness ==
    /\ last.op = "undoClick" /\ editingKey = Undefined
    /\ Len(hooks) = 1 /\ hooks[1].path = "confirm"
    /\ hooks[1].key = last.key

\* C17: in every state and for every row of the dataset, while editingKey
\* is defined the onRow prop calls no hook and returns the empty listener
\* map, and while editingKey is undefined it calls the caller's onRow hook
\* with the row and its index.
C17_RowEventSuppression ==
    \A i \in 1..Len(dataSource) :
        LET r == onRow(dataSource[i], i - 1)
        IN  IF editingKey # Undefined
            THEN r.hook = None /\ r.listeners = "{}"
            ELSE r.hook = Some(<<dataSource[i], i - 1>>)

\* row k1 is being edited and row k2, which is not, gets no listeners
C17_Witness ==
    /\ editingKey = "k1"
    /\ Len(dataSource) = 2 /\ dataSource[2].id = "k2"
    /\ onRow(dataSource[2], 1) = [hook |-> None, listeners |-> "{}"]

SameKeyTwice(coll) ==
    {p \in (1..Len(coll)) \X (1..Len(coll)) :
        p[1] < p[2] /\ coll[p[1]].id = coll[p[2]].id}

\* C19: in every state none of create, update and delete holds two entries
\* of the same rowKey value; and a per-cell save of a key that update
\* already holds leaves update with the length it had, every key at its
\* position, and the entries of the other keys as they were.
C19_DiffKeyUniqueness ==
    /\ [](/\ SameKeyTwice(create) = {}
          /\ SameKeyTwice(update) = {}
          /\ SameKeyTwice(delete) = {})
    /\ [][(last'.op = "cellSave" /\ last'.key \in Ids(update)) =>
             /\ Len(update') = Len(update)
             /\ \A i \in 1..Len(update) :
                    /\ update'[i].id = update[i].id
                    /\ update[i].id # last'.key => update'[i] = update[i]
                    /\ update[i].id = last'.key =>
                           Struct(update'[i]) = Struct(last'.rec[1])]_vars

\* update holds k1 then k2, and a later save of k1 with another value has
\* replaced the first entry
C19_Witness ==
    /\ last.op = "cellSave" /\ last.key = "k1" /\ ~last.dup
    /\ Len(update) = 2
    /\ update[1] = last.rec[1] /\ update[2].id = "k2"

\* C20: an edit-diff collection loses entries only in the callback of a
\* discard; that callback runs only for a discard none of whose hide
\* transitions is still pending; and a discard one of whose hide
\* transitions rejects ends without clearing anything.
C20_DiscardOrdering ==
    /\ [][DiffShrinks => last'.op = "editStashThen"]_vars
    /\ [][last'.op = "editStashThen" =>
             \E s \in 1..Len(stashes) :
                 stashes[s] = {} /\ stashes' = RemoveAt(stashes, s)]_vars
    /\ [][last'.op = "cellHideRejected" =>
             /\ UNCHANGED <<create, update, delete>>
             /\ Len(stashes') = Len(stashes) - 1]_vars

\* a discard asked two cells to hide; the cell of k2 has hidden, the cell
\* of k1 has not, and the pending edits are still in the collections
C20_Witness ==
    /\ last.op = "cellHidden" /\ last.key = "k2"
    /\ stashes = <<{"k1"}>>
    /\ Len(update) > 0

\* C21: when a child fetch for a node object resolves with a non-empty
\* list L, the children of that object become new objects with the keys of
\* L in order, and setState is called with a copy of the root list holding
\* the same root objects in the same order; when it resolves with an empty
\* list or with undefined, the children of that object and the root list
\* stay as they are and setState is not called; in both cases the children
\* of every other object stay as they are.
C21_TreeChildMerge ==
    [][treeLast'.op = "onLoadDataResumed" =>
          LET o == treeLast'.node
              resp == treeLast'.got
          IN  /\ IF resp # None /\ Len(resp[1]) > 0
                 THEN /\ KeysOf(children'[o]) = resp[1]
                      /\ treeLast'.set
                 ELSE /\ children'[o] = children[o]
                      /\ ~treeLast'.set
              /\ treeData' = treeData
              /\ \A p \in Objects \ {o} : children'[p] = children[p]]_vars

\* n1 was fetched twice, so that two objects of key n3 exist; the fetch for
\* the second resolved with [n4], and the first is still without children
C21_Witness ==
    /\ treeLast.op = "onLoadDataResumed"
    /\ treeLast.node = <<"n3", 2>> /\ treeLast.got = Some(<<"n4">>)
    /\ KeysOf(children[<<"n3", 2>>]) = <<"n4">>
    /\ children[<<"n3", 1>>] = <<>>

\* C22 as stated: the non-false resolution of the save hook of a confirm of
\* row k, arriving while another row is being edited, leaves editingKey
\* where it is.
C22_Original ==
    [][(/\ last'.op = "confirmThen" /\ last'.resp # "false"
        /\ editingKey # Undefined /\ editingKey # last'.key)
           => editingKey' = editingKey]_vars

\* C23 as stated: whenever editingKey is defined, the dataset holds a row
\* whose rowKey value is editingKey.
C23_Original == editingKey # Undefined => editingKey \in Ids(dataSource)

\* C24: under the operations of the widget (loads, per-cell saves, row
\* confirms, deletes, reloads, discards) create and delete are empty in
\* every state, no save hook is called with the tag "CREATE", and
\* editStatus() is true exactly when update holds an entry.
C24_CreateDeleteEmpty ==
    /\ create = <<>> /\ delete = <<>>
    /\ last.tag # "CREATE"
    /\ editStatus <=> (update # <<>>)

\* the hook of a delete has resolved while a per-cell edit is pending: the
\* delete collection is empty and editStatus() is true on account of update
C24_Witness ==
    /\ last.op = "deleteThen" /\ last.resp # "false"
    /\ delete = <<>> /\ create = <<>>
    /\ Len(update) > 0 /\ editStatus

====
